---- MODULE Spec2Model ----
(***************************************************************************)
(* Model of package rng (advbet/rng): bias-free range reduction on top of  *)
(* a byte-oriented entropy source.                                         *)
(*                                                                         *)
(* A Go uint64 (and an int, in two's complement) is an 8-tuple of bytes,   *)
(* least significant byte first, so that every operation keeps the 64-bit  *)
(* width of the code: TLC's own integers are 32 bits wide.                 *)
(***************************************************************************)
EXTENDS Integers, Sequences, FiniteSets

----------------------------------------------------------------------------
(* 64-bit unsigned arithmetic of the Go code, on little-endian byte tuples *)

Zero64 == <<0, 0, 0, 0, 0, 0, 0, 0>>

One64 == <<1, 0, 0, 0, 0, 0, 0, 0>>

\* 2^e for 0 <= e <= 8
Pow2(e) == CASE e = 0 -> 1 [] e = 1 -> 2 [] e = 2 -> 4 [] e = 3 -> 8 [] e = 4 -> 16
             [] e = 5 -> 32 [] e = 6 -> 64 [] e = 7 -> 128 [] OTHER -> 256

\* a function on 1..n as the tuple of its values
Tuple(f) == f \o <<>>

\* the k low-order bytes of the natural number x
RECURSIVE ToBytes(_, _)
ToBytes(x, k) == IF k = 0 THEN <<>> ELSE <<x % 256>> \o ToBytes(x \div 256, k - 1)

\* uint64(x) of a small non-negative number
U64(x) == ToBytes(x, Len(Zero64))

\* a with zero bytes appended up to k bytes (a widening conversion)
Widen(a, k) == Tuple([i \in 1..k |-> IF i <= Len(a) THEN a[i] ELSE 0])

\* the value of a byte tuple whose bytes above the third are zero
ToNat(a) == a[1] + 256 * a[2] + 65536 * a[3]

\* a - b modulo 256^Len(a): the bytes from index i on, with borrow bw
RECURSIVE SubFrom(_, _, _, _)
SubFrom(a, b, i, bw) ==
    IF i > Len(a) THEN <<>>
    ELSE LET d == a[i] - b[i] - bw
         IN  <<(d + 256) % 256>> \o SubFrom(a, b, i + 1, IF d < 0 THEN 1 ELSE 0)

\* a - b, wrapping
Sub64(a, b) == SubFrom(a, b, 1, 0)

\* a < b, unsigned, deciding at the most significant differing byte
RECURSIVE LessFrom(_, _, _)
LessFrom(a, b, i) ==
    IF i = 0 THEN FALSE
    ELSE IF a[i] # b[i] THEN a[i] < b[i]
    ELSE LessFrom(a, b, i - 1)

Less64(a, b) == LessFrom(a, b, Len(a))

\* 2 * a + bit, wrapping
Double(a, bit) ==
    Tuple([i \in 1..Len(a) |->
        ((a[i] * 2) % 256) + (IF i = 1 THEN bit ELSE a[i - 1] \div 128)])

\* one step of binary long division by b: (2 * rem + bit) % b, for rem < b
ModBit(rem, bit, b) ==
    LET d == Double(rem, bit)
    IN  IF rem[Len(rem)] >= 128 \/ ~Less64(d, b) THEN Sub64(d, b) ELSE d

\* eight steps of it: (256 * rem + x) % b, for rem < b and a byte x
ModByte(rem, x, b) ==
    ModBit(ModBit(ModBit(ModBit(ModBit(ModBit(ModBit(ModBit(rem,
        (x \div 128) % 2, b), (x \div 64) % 2, b), (x \div 32) % 2, b),
        (x \div 16) % 2, b), (x \div 8) % 2, b), (x \div 4) % 2, b),
        (x \div 2) % 2, b), x % 2, b)

\* a % b (b # 0): the bytes of a from index i down, rem the remainder so far
\* (a leading zero byte leaves a zero remainder zero)
RECURSIVE ModFrom(_, _, _, _)
ModFrom(a, b, i, rem) ==
    IF i = 0 THEN rem
    ELSE IF rem = Tuple([k \in 1..Len(a) |-> 0]) /\ a[i] = 0
         THEN ModFrom(a, b, i - 1, rem)
    ELSE ModFrom(a, b, i - 1, ModByte(rem, a[i], b))

\* a has no byte set above its third: its value is ToNat(a)
IsSmall(a) == \A i \in 4..Len(a) : a[i] = 0

\* a % b (b # 0): on TLC's integers when both are small, else by division
Mod64(a, b) ==
    IF IsSmall(a) /\ IsSmall(b) THEN ToBytes(ToNat(a) % ToNat(b), Len(a))
    ELSE ModFrom(a, b, Len(a), Tuple([i \in 1..Len(a) |-> 0]))

\* x & y and x | y of two bytes
RECURSIVE AndByte(_, _)
AndByte(x, y) ==
    IF x = 0 \/ y = 0 THEN 0
    ELSE (x % 2) * (y % 2) + 2 * AndByte(x \div 2, y \div 2)

OrByte(x, y) == x + y - AndByte(x, y)

And64(a, b) == Tuple([i \in 1..Len(a) |-> AndByte(a[i], b[i])])

Or64(a, b) == Tuple([i \in 1..Len(a) |-> OrByte(a[i], b[i])])

\* a << s for a shift count s >= 0: Go gives 0 once s reaches the width
Shl64(a, s) ==
    IF s >= 8 * Len(a) THEN Tuple([i \in 1..Len(a) |-> 0])
    ELSE LET q == s \div 8
             t == s % 8
         IN  Tuple([i \in 1..Len(a) |->
                 (IF i - q >= 1 THEN (a[i - q] * Pow2(t)) % 256 ELSE 0)
               + (IF i - q - 1 >= 1 THEN a[i - q - 1] \div Pow2(8 - t) ELSE 0)])

\* an int is negative when its sign bit is set
IsNeg(a) == a[Len(a)] >= 128

----------------------------------------------------------------------------
(* util.go *)

\* the byte tuple 0xff..ff of k bytes, as a uint64
LowOnes(k) == Tuple([i \in 1..Len(Zero64) |-> IF i <= k THEN 255 ELSE 0])

\* a <= b, unsigned
Leq64(a, b) == ~Less64(b, a)

minBytes(n) ==
    CASE n = Zero64 -> 0
      [] Leq64(n, LowOnes(1)) -> 1
      [] Leq64(n, LowOnes(2)) -> 2
      [] Leq64(n, LowOnes(3)) -> 3
      [] Leq64(n, LowOnes(4)) -> 4
      [] Leq64(n, LowOnes(5)) -> 5
      [] Leq64(n, LowOnes(6)) -> 6
      [] Leq64(n, LowOnes(7)) -> 7
      [] OTHER -> 8

----------------------------------------------------------------------------
(* ReadUint64Bits *)

\* the precondition check: n > 64
TooManyBits(n) == n > 64

\* a read that always fills the whole buffer
BytesWhole(n) == Len(Zero64)

\* bytes := (n + 7) / 8
BytesNeeded(n) == (n + 7) \div 8

\* b := make([]byte, 8), then the bytes d read into b[:bytes]
Buffer(d) == Widen(d, Len(Zero64))

\* uint64(b[0]) | uint64(b[1])<<8 | ... | uint64(b[7])<<56
LittleEndian(b) ==
    Or64(Or64(Or64(Or64(Or64(Or64(Or64(
        U64(b[1]), Shl64(U64(b[2]), 8)), Shl64(U64(b[3]), 16)),
        Shl64(U64(b[4]), 24)), Shl64(U64(b[5]), 32)), Shl64(U64(b[6]), 40)),
        Shl64(U64(b[7]), 48)), Shl64(U64(b[8]), 56))

\* a mask whose shift count wraps at the word width
MaskWrapped(n) == Sub64(Shl64(One64, n % 64), One64)

\* (1 << n) - 1
Mask(n) == Sub64(Shl64(One64, n), One64)

\* the value returned for n bits when the source delivered the bytes d
Uint64BitsValue(d, n) == And64(LittleEndian(Buffer(d)), Mask(n))

\* a read whose error is dropped
ReadFailedNever(want, d) == FALSE

\* e != nil of io.ReadFull: fewer bytes than asked for were delivered
ReadFailed(want, d) == Len(d) < want

\* the error of io.ReadFull that is then the panic value
ReadError(d) == IF Len(d) = 0 THEN "EOF" ELSE "unexpected EOF"

----------------------------------------------------------------------------
(* ReadIntn *)

\* a check that lets 0 through: n < 0
Negative(n) == IsNeg(n)

\* the precondition check: n <= 0
NotPositive(n) == IsNeg(n) \/ n = Zero64

\* bits := minBytes(N-1) * 8
IntnBits(N) == minBytes(Sub64(N, One64)) * 8

\* N&(N-1) == 0
IsPow2(N) == And64(N, Sub64(N, One64)) = Zero64

\* M := uint64(1 << bits)
IntnM(bits) == Shl64(One64, bits)

\* a ReadIntn that accepts every draw: plain modulo
LimitNone(N, bits) == IntnM(bits)

\* limit := M - M%N, which is wrong once M has wrapped to 0
LimitDirect(N, bits) == Sub64(IntnM(bits), Mod64(IntnM(bits), N))

\* a ReadIntn that accepts the first interval of N values only
LimitFirst(N, bits) == N

\* limit := M - (M-N)%N
Limit(N, bits) ==
    Sub64(IntnM(bits), Mod64(Sub64(IntnM(bits), N), N))

\* ReadUint64Bits(src, bits) & (N - 1)
Pow2Result(r, N) == And64(r, Sub64(N, One64))

\* r < limit
Accepted(r, limit) == Less64(r, limit)

\* a ReadIntn that returns the accepted draw itself
ReduceNot(r, N) == r

\* r % N
Reduce(r, N) == Mod64(r, N)

----------------------------------------------------------------------------
(* ReadFloat64 *)

\* the bits ReadFloat64 asks of ReadUint64Bits
FloatBits == 53

\* the position of the highest set bit of r, r not 0
HighBit(r) ==
    CHOOSE h \in 0..63 :
        /\ Leq64(Shl64(One64, h), r)
        /\ h = 63 \/ Less64(r, Shl64(One64, h + 1))

\* float64(r) / float64(1<<53) for r < 2^53, as the IEEE 754 binary64 bit
\* pattern of the quotient (both the conversion and the division are exact):
\* 0 for r = 0, else biased exponent 1023 + h - 53 over the 52 bits of r
\* below its highest set bit h
Float64Value(r) ==
    IF r = Zero64 THEN Zero64
    ELSE LET h == HighBit(r)
             frac == And64(Shl64(r, 52 - h), Sub64(Shl64(One64, 52), One64))
             expo == Shl64(U64(1023 + h - FloatBits), 52)
         IN  Or64(expo, frac)

----------------------------------------------------------------------------
(* ReadPerm, ReadSample *)

\* a step that forgets m[i] = m[j]
PermStepLost(m, i, j) == [m EXCEPT ![j + 1] = i]

\* m[i] = m[j]; m[j] = i, on a slice held as a sequence (index + 1)
PermStep(m, i, j) ==
    [[m EXCEPT ![i + 1] = m[j + 1]] EXCEPT ![j + 1] = i]

\* n / 2 of Go, truncating toward zero
Half(n) == IF n >= 0 THEN n \div 2 ELSE -((-n) \div 2)

\* if k > n { k = n }
Clamp(n, k) == IF k > n THEN n ELSE k

\* k > n/2: the permutation path
Dense(n, k) == k > Half(n)

\* a step that keeps duplicates
SampleStepAll(sample, cache, v) == Append(sample, v)

\* sample after drawing v: unchanged when v is cached, else appended
SampleStep(sample, cache, v) ==
    IF v \in cache THEN sample ELSE Append(sample, v)

----------------------------------------------------------------------------
(* State: one caller issuing calls against one entropy source *)

VARIABLES
    avail,  \* bytes the entropy source can still deliver before it fails
    rd,     \* the latest ReadUint64Bits of the current call
    pc,     \* "idle", "bits", "float", "intn", "draw", "perm", "sample",
            \* "done", "panic"
    call,   \* the top-level call: its name and arguments
    intn,   \* the frame of the ReadIntn invocation in progress
    perm,   \* the frame of ReadPerm
    samp,   \* the frame of ReadSample
    ret,    \* the value returned by the top-level call (pc = "done")
    err     \* the panic value (pc = "panic")

vars == <<avail, rd, pc, call, intn, perm, samp, ret, err>>

\* the most bytes the modelled source holds
MaxAvail == 16

\* the widest bit count asked of ReadUint64Bits at top level
MaxBitsArg == 66

\* the largest n given to ReadPerm and ReadSample
MaxN == 4

\* further single bytes the source may deliver
ByteVals == {0, 1, 2, 3, 195, 255}

\* byte streams the source may deliver to a longer read
Patterns ==
    { <<18, 52, 86, 120, 154, 188, 222, 240>>,
      <<255, 255, 255, 255, 255, 255, 255, 255>>,
      <<254, 255, 255, 255, 255, 255, 255, 255>>,
      <<0, 0, 0, 0, 0, 0, 0, 0>>,
      <<165, 90, 1, 128, 127, 3, 0, 192>> }

\* what the source may deliver to a read of k bytes, k <= 8: the first k
\* bytes of a stream, and for one byte also each of ByteVals
Delivered(k) ==
    {SubSeq(p, 1, k) : p \in Patterns}
        \cup (IF k = 1 THEN {<<x>> : x \in ByteVals} ELSE {})

\* io.ReadFull(src, b[:k]): k bytes, or what is left when fewer are left
Outcomes(k) == IF k <= avail THEN Delivered(k) ELSE Delivered(avail)

\* arguments of top-level ReadIntn calls, as 64-bit ints
IntnArgs ==
    {U64(x) : x \in (0..20) \cup {65, 100, 128, 200, 255, 256, 257, 1000,
                                  65536, 65537, 16777216, 16777217}}
        \cup { <<255, 255, 255, 255, 255, 255, 255, 255>>,  \* -1
               <<0, 0, 0, 0, 0, 0, 0, 128>>,                \* -2^63
               <<1, 0, 0, 0, 1, 0, 0, 0>>,                  \* 2^32 + 1
               <<0, 0, 0, 0, 0, 0, 0, 1>>,                  \* 2^56
               <<1, 0, 0, 0, 0, 0, 0, 1>>,                  \* 2^56 + 1
               <<0, 0, 0, 0, 0, 0, 0, 64>>,                 \* 2^62
               <<1, 0, 0, 0, 0, 0, 0, 64>>,                 \* 2^62 + 1
               <<254, 255, 255, 255, 255, 255, 255, 127>>,  \* 2^63 - 2
               <<255, 255, 255, 255, 255, 255, 255, 127>> } \* 2^63 - 1

NoRead == [any |-> FALSE, n |-> 0, before |-> 0, d |-> <<>>, r |-> Zero64]

NoCall == [op |-> "", n |-> 0, k |-> 0, x |-> Zero64]

NoIntn == [n |-> Zero64, N |-> Zero64, bits |-> 0, limit |-> Zero64, from |-> ""]

NoPerm == [n |-> 0, m |-> <<>>, i |-> 0, from |-> ""]

NoSamp == [n |-> 0, k |-> 0, sample |-> <<>>, cache |-> {}]

Init ==
    /\ avail \in 0..MaxAvail
    /\ rd = NoRead
    /\ pc = "idle"
    /\ call = NoCall
    /\ intn = NoIntn
    /\ perm = NoPerm
    /\ samp = NoSamp
    /\ ret = <<>>
    /\ err = ""

\* a call is made: its arguments, and no frame but the one given
Invoke(c, p, fi, fp, fs) ==
    /\ call' = c
    /\ pc' = p
    /\ rd' = NoRead
    /\ intn' = fi
    /\ perm' = fp
    /\ samp' = fs
    /\ ret' = <<>>
    /\ err' = ""
    /\ UNCHANGED avail

\* the record of ReadUint64Bits(src, n) to which the source delivered d
Extraction(n, d) ==
    [any |-> TRUE, n |-> n, before |-> avail, d |-> d,
     r |-> Uint64BitsValue(d, n)]

\* the source after delivering d, and the record of the read
Consume(n, d) ==
    /\ avail' = avail - Len(d)
    /\ rd' = Extraction(n, d)

\* panic(e): the call ends, nothing is returned
Panic(e) ==
    /\ pc' = "panic"
    /\ err' = e
    /\ UNCHANGED <<call, intn, perm, samp, ret>>

\* ReadIntn(src, n) is called by `from`
CallReadIntn(n, from) ==
    /\ pc' = "intn"
    /\ intn' = [NoIntn EXCEPT !.n = n, !.from = from]

\* the top-level call returns v
Return(v) ==
    /\ pc' = "done"
    /\ ret' = v

\* ReadPerm after the loop: return m, to ReadSample's m[0:k] when it called
PermReturn(m) ==
    Return(IF perm.from = "sample" THEN SubSeq(m, 1, samp.k) ELSE m)

\* ReadIntn, in frame f, returns v to its caller, which runs to its next call
Resume(f, v) ==
    /\ UNCHANGED <<call, err>>
    /\ CASE f.from = "perm" ->
              LET m2 == PermStep(perm.m, perm.i, ToNat(v))
                  i2 == perm.i + 1
              IN  /\ perm' = [perm EXCEPT !.m = m2, !.i = i2]
                  /\ samp' = samp
                  /\ IF i2 < perm.n
                     THEN CallReadIntn(U64(i2 + 1), "perm") /\ ret' = ret
                     ELSE PermReturn(m2) /\ intn' = f
         [] f.from = "sample" ->
              LET s2 == SampleStep(samp.sample, samp.cache, ToNat(v))
              IN  /\ samp' = [samp EXCEPT !.sample = s2,
                                          !.cache = @ \cup {ToNat(v)}]
                  /\ perm' = perm
                  /\ IF Len(s2) < samp.k
                     THEN CallReadIntn(U64(samp.n), "sample") /\ ret' = ret
                     ELSE Return(s2) /\ intn' = f
         [] OTHER ->
              /\ Return(v)
              /\ intn' = f
              /\ UNCHANGED <<perm, samp>>

----------------------------------------------------------------------------
(* Actions *)

\* Uint64Bits(n) / ReadUint64Bits(src, n) is called
CallUint64Bits ==
    /\ pc = "idle"
    /\ \E n \in 0..MaxBitsArg :
           Invoke([NoCall EXCEPT !.op = "Uint64Bits", !.n = n], "bits",
                  NoIntn, NoPerm, NoSamp)

\* Intn(n) / ReadIntn(src, n) is called
CallIntn ==
    /\ pc = "idle"
    /\ \E x \in IntnArgs :
           Invoke([NoCall EXCEPT !.op = "Intn", !.x = x], "intn",
                  [NoIntn EXCEPT !.n = x, !.from = "top"], NoPerm, NoSamp)

\* Perm(n) / ReadPerm(src, n) is called
CallPerm ==
    /\ pc = "idle"
    /\ \E n \in -1..MaxN :
           Invoke([NoCall EXCEPT !.op = "Perm", !.n = n], "perm",
                  NoIntn, NoPerm, NoSamp)

\* ReadSample(src, n, k) is called
CallSample ==
    /\ pc = "idle"
    /\ \E n \in -1..MaxN, k \in -1..(MaxN + 1) :
           Invoke([NoCall EXCEPT !.op = "Sample", !.n = n, !.k = k], "sample",
                  NoIntn, NoPerm, [NoSamp EXCEPT !.n = n, !.k = k])

\* Float64() / ReadFloat64(src) is called
CallFloat64 ==
    /\ pc = "idle"
    /\ Invoke([NoCall EXCEPT !.op = "Float64", !.n = FloatBits], "float",
              NoIntn, NoPerm, NoSamp)

\* ReadFloat64(src): ReadUint64Bits(src, 53), which passes its check of n,
\* and the quotient by 2^53
ReadFloat64 ==
    /\ pc = "float"
    /\ \E d \in Outcomes(BytesNeeded(FloatBits)) :
           /\ Consume(FloatBits, d)
           /\ IF ReadFailed(BytesNeeded(FloatBits), d)
              THEN Panic(ReadError(d))
              ELSE /\ Return(Float64Value(rd'.r))
                   /\ UNCHANGED <<call, intn, perm, samp, err>>

\* ReadUint64Bits(src, n), called at top level
Uint64Bits ==
    /\ pc = "bits"
    /\ IF TooManyBits(call.n)
       THEN /\ Panic("abr.Uint64Bits can not return more than 64 random bits")
            /\ UNCHANGED <<avail, rd>>
       ELSE \E d \in Outcomes(BytesNeeded(call.n)) :
                /\ Consume(call.n, d)
                /\ IF ReadFailed(BytesNeeded(call.n), d)
                   THEN Panic(ReadError(d))
                   ELSE /\ Return(rd'.r)
                        /\ UNCHANGED <<call, intn, perm, samp, err>>

\* ReadIntn up to its loop: the checks, and the single read of a power of two
IntnEntry ==
    /\ pc = "intn"
    /\ IF NotPositive(intn.n)
       THEN /\ Panic("invalid argument to Intn")
            /\ UNCHANGED <<avail, rd>>
       ELSE LET N == intn.n
                bits == IntnBits(N)
                f == [intn EXCEPT !.N = N, !.bits = bits]
            IN  IF IsPow2(N)
                THEN \E d \in Outcomes(BytesNeeded(bits)) :
                         /\ Consume(bits, d)
                         /\ IF ReadFailed(BytesNeeded(bits), d)
                            THEN Panic(ReadError(d))
                            ELSE Resume(f, Pow2Result(rd'.r, N))
                ELSE /\ pc' = "draw"
                     /\ intn' = [f EXCEPT !.limit = Limit(N, bits)]
                     /\ UNCHANGED <<avail, rd, call, perm, samp, ret, err>>

\* one iteration of ReadIntn's loop: a draw, accepted or discarded
IntnDraw ==
    /\ pc = "draw"
    /\ \E d \in Outcomes(BytesNeeded(intn.bits)) :
           /\ Consume(intn.bits, d)
           /\ IF ReadFailed(BytesNeeded(intn.bits), d)
              THEN Panic(ReadError(d))
              ELSE IF Accepted(rd'.r, intn.limit)
                   THEN Resume(intn, Reduce(rd'.r, intn.N))
                   ELSE UNCHANGED <<pc, call, intn, perm, samp, ret, err>>

\* ReadPerm(src, n) called by `from`, up to its first ReadIntn
PermBegin(n, from) ==
    IF n < 0
    THEN /\ pc' = "panic"
         /\ err' = "makeslice: len out of range"
         /\ UNCHANGED <<intn, perm, ret>>
    ELSE /\ perm' = [n |-> n, m |-> Tuple([i \in 1..n |-> 0]), i |-> 0, from |-> from]
         /\ err' = err
         /\ IF 0 < n
            THEN CallReadIntn(U64(1), "perm") /\ ret' = ret
            ELSE Return(<<>>) /\ intn' = intn

\* ReadPerm, called at top level
PermEntry ==
    /\ pc = "perm"
    /\ PermBegin(call.n, "top")
    /\ UNCHANGED <<avail, rd, call, samp>>

\* ReadSample up to its first ReadIntn
SampleEntry ==
    /\ pc = "sample"
    /\ UNCHANGED <<avail, rd, call>>
    /\ LET k == Clamp(samp.n, samp.k)
       IN  /\ samp' = [samp EXCEPT !.k = k]
           /\ IF Dense(samp.n, k)
              THEN PermBegin(samp.n, "sample")
              ELSE /\ perm' = perm
                   /\ IF k < 0
                      THEN /\ pc' = "panic"
                           /\ err' = "makeslice: cap out of range"
                           /\ UNCHANGED <<intn, ret>>
                      ELSE /\ err' = err
                           /\ IF 0 < k
                              THEN CallReadIntn(U64(samp.n), "sample") /\ ret' = ret
                              ELSE Return(<<>>) /\ intn' = intn

\* the caller takes the result, or recovers the panic, and is idle again
Finish ==
    /\ pc \in {"done", "panic"}
    /\ pc' = "idle"
    /\ rd' = NoRead
    /\ call' = NoCall
    /\ intn' = NoIntn
    /\ perm' = NoPerm
    /\ samp' = NoSamp
    /\ ret' = <<>>
    /\ err' = ""
    /\ UNCHANGED avail

Next ==
    \/ CallUint64Bits
    \/ CallIntn
    \/ CallPerm
    \/ CallSample
    \/ CallFloat64
    \/ Uint64Bits
    \/ ReadFloat64
    \/ IntnEntry
    \/ IntnDraw
    \/ PermEntry
    \/ SampleEntry
    \/ Finish

Spec == Init /\ [][Next]_vars

----------------------------------------------------------------------------
(* Properties *)

\* bit t of the byte x
ByteBit(x, t) == (x \div Pow2(t)) % 2

\* ceil(n / 8): the least k with 8k >= n
Ceil8(n) == CHOOSE k \in 0..(n + 1) : 8 * k >= n /\ (k = 0 \/ 8 * (k - 1) < n)

\* the latest read got every byte it asked for
ReadOk == rd.any /\ Len(rd.d) = Ceil8(rd.n)

\* the latest read got fewer bytes than it asked for
ReadShort == rd.any /\ Len(rd.d) < Ceil8(rd.n)

\* a is the 64-bit int of the number x, 0 <= x < 2^24
IsInt(a, x) == a = ToBytes(x, Len(Zero64))

\* the distinct values of the sequence q
Range(q) == {q[i] : i \in 1..Len(q)}

\* q holds each value of 0..n-1 exactly once
IsPermutation(q, n) == Len(q) = n /\ Range(q) = 0..(n - 1)

\* C1: whenever ReadIntn(src, n) returns, its value v satisfies 0 <= v < n,
\* on the power-of-two path, on the rejection path and where bits = 64.
IntnInRange ==
    (call.op = "Intn" /\ pc = "done") =>
        /\ ret[Len(ret)] < 128
        /\ call.x[Len(call.x)] < 128
        /\ \E i \in 1..Len(ret) :
               /\ ret[i] < call.x[i]
               /\ \A k \in (i + 1)..Len(ret) : ret[k] = call.x[k]

\* C1 witness: ReadIntn(src, 2^63 - 1) returned after a 64-bit draw
IntnTopOfRangeReturned ==
    /\ call.op = "Intn"
    /\ pc = "done"
    /\ call.x = <<255, 255, 255, 255, 255, 255, 255, 127>>
    /\ intn.bits = 64
    /\ ret = <<19, 52, 86, 120, 154, 188, 222, 112>>

\* what ReadIntn, in frame f, makes of the extractor value x: the value
\* returned, or -1 when x is discarded
IntnOutcome(f, x) ==
    IF IsPow2(f.N) THEN ToNat(Pow2Result(U64(x), f.N))
    ELSE IF Accepted(U64(x), f.limit) THEN ToNat(Reduce(U64(x), f.N))
    ELSE -1

\* every value of [0, N) is the outcome of the same number (not 0) of the
\* 2^bits extractor values, for a frame with bits <= 8
FlatHistogram(f) ==
    LET size == Pow2(f.bits)
        hist == Tuple([i \in 1..size |-> IntnOutcome(f, i - 1)])
        count == Tuple([i \in 1..ToNat(f.N) |->
                     Cardinality({j \in 1..size : hist[j] = i - 1})])
    IN  \A i \in 1..ToNat(f.N) : count[i] = count[1] /\ count[i] > 0

\* a top-level ReadIntn whose frame is first seen with the source full:
\* at its loop before the first draw, or returned from the single read
FirstSeen ==
    /\ call.op = "Intn"
    /\ \/ pc = "draw" /\ ~rd.any /\ avail = MaxAvail
       \/ pc = "done" /\ IsPow2(intn.N) /\ rd.before = MaxAvail

\* C2: ReadIntn is free of modulo bias: every v in [0, n) is the result of
\* the same number of accepted extractor values r in [0, 2^bits); counted
\* value by value where bits <= 8, and where bits is larger by the accepted
\* range [0, limit) being a whole, non-zero number of intervals of n.
IntnNoModuloBias ==
    FirstSeen =>
        IF intn.bits <= 8 THEN FlatHistogram(intn)
        ELSE IsPow2(intn.N)
             \/ (intn.limit # Zero64 /\ Mod64(intn.limit, intn.N) = Zero64)

\* C2 witness: the histogram of ReadIntn(src, 65) has been counted
IntnBiasCounted ==
    /\ FirstSeen
    /\ IsInt(intn.N, 65)
    /\ IsInt(intn.limit, 195)
    /\ IntnOutcome(intn, 194) = 64
    /\ IntnOutcome(intn, 195) = -1

\* C3: ReadUint64Bits(src, n), 0 <= n <= 64, returns the little-endian
\* integer of the ceil(n/8) bytes read, cut to its n low-order bits: bit j of
\* the result is bit j % 8 of byte j / 8 when j < n, and 0 when j >= n.
BitsLittleEndianMasked ==
    ReadOk =>
        /\ \A j \in 0..63 :
              ByteBit(rd.r[(j \div 8) + 1], j % 8) =
                  IF j < rd.n THEN ByteBit(rd.d[(j \div 8) + 1], j % 8) ELSE 0
        /\ (call.op = "Uint64Bits" /\ pc = "done") => ret = rd.r

\* C3 witness: all 64 bits of eight bytes read are returned
BitsAll64Kept ==
    /\ call.op = "Uint64Bits"
    /\ pc = "done"
    /\ call.n = 64
    /\ ret = <<18, 52, 86, 120, 154, 188, 222, 240>>

\* C4: a successful ReadUint64Bits(src, n) takes exactly ceil(n/8) bytes
\* from the source, never more: a source holding that many is enough, and
\* the rest stays unread.
BitsReadExactly ==
    rd.any =>
        /\ Len(rd.d) <= Ceil8(rd.n)
        /\ avail = rd.before - Len(rd.d)
        /\ rd.before >= Ceil8(rd.n) => (ReadOk /\ pc # "panic")
        /\ (call.op = "Uint64Bits" /\ pc = "done") => ReadOk

\* C4 witness: 9 bits were read from a source that held exactly 2 bytes
BitsReadFromExactSource ==
    /\ call.op = "Uint64Bits"
    /\ pc = "done"
    /\ rd.n = 9
    /\ rd.before = 2
    /\ avail = 0

\* C5: ReadPerm(src, n), n >= 0, returns a sequence of length n holding each
\* value of [0, n) exactly once; after each iteration of its loop the prefix
\* m[0..i] is a permutation of 0..i.
PermIsPermutation ==
    /\ (call.op = "Perm" /\ pc = "done") => IsPermutation(ret, call.n)
    /\ perm.from # "" =>
           /\ Len(perm.m) = perm.n
           /\ perm.i <= perm.n
           /\ IsPermutation(SubSeq(perm.m, 1, perm.i), perm.i)

\* C5 witness: ReadPerm(src, 3) returned the permutation 2, 0, 1
PermReturned ==
    /\ call.op = "Perm"
    /\ pc = "done"
    /\ call.n = 3
    /\ ret = <<2, 0, 1>>

\* C6: ReadSample(src, n, k) returns, for k <= n, exactly k pairwise distinct
\* values of [0, n) and, for k > n, exactly n values, all of [0, n); on the
\* permutation path (k > n/2) and on the drawing path (k <= n/2).
SampleDistinct ==
    (call.op = "Sample" /\ pc = "done") =>
        /\ Range(ret) \subseteq 0..(call.n - 1)
        /\ Cardinality(Range(ret)) = Len(ret)
        /\ Len(ret) = IF call.k <= call.n THEN call.k ELSE call.n

\* C6 witness: two values drawn out of four, the first of them not 0
SampleDrawn ==
    /\ call.op = "Sample"
    /\ pc = "done"
    /\ call.n = 4
    /\ call.k = 2
    /\ perm.from = ""
    /\ ret = <<3, 1>>

\* C7: ReadIntn(src, n) with n <= 0 and ReadUint64Bits(src, n) with n > 64
\* end in a panic, return nothing and read no byte of the source.
BadArgumentPanics ==
    /\ (call.op = "Intn" /\ pc # "intn"
            /\ (call.x[Len(call.x)] >= 128 \/ call.x = Zero64)) =>
           /\ pc = "panic"
           /\ err = "invalid argument to Intn"
           /\ ret = <<>>
           /\ ~rd.any
    /\ (call.op = "Uint64Bits" /\ pc # "bits" /\ call.n > 64) =>
           /\ pc = "panic"
           /\ err = "abr.Uint64Bits can not return more than 64 random bits"
           /\ ret = <<>>
           /\ ~rd.any

\* C7 witness: ReadIntn(src, 0) panicked with eight bytes left unread
IntnZeroPanicked ==
    /\ call.op = "Intn"
    /\ call.x = Zero64
    /\ pc = "panic"
    /\ avail = 8

\* C8: when the source delivers fewer than the ceil(n/8) >= 1 bytes asked
\* for, ReadUint64Bits panics with the read error instead of returning a
\* value, and that ends the enclosing ReadIntn, ReadPerm or ReadSample: no
\* value is returned and nothing more is read.
ShortReadPanics ==
    /\ ReadShort =>
           /\ pc = "panic"
           /\ err \in {"EOF", "unexpected EOF"}
           /\ ret = <<>>
           /\ avail = 0
    /\ (pc = "panic" /\ rd.any) => ReadShort

\* C8 witness: ReadPerm(src, 3) panicked in its third iteration, the source
\* having run dry
PermSourceRanDry ==
    /\ call.op = "Perm"
    /\ call.n = 3
    /\ perm.i = 2
    /\ pc = "panic"
    /\ err = "EOF"

\* a + b modulo 256^Len(a): the bytes from index i on, with carry c
RECURSIVE AddFrom(_, _, _, _)
AddFrom(a, b, i, c) ==
    IF i > Len(a) THEN <<>>
    ELSE LET s == a[i] + b[i] + c
         IN  <<s % 256>> \o AddFrom(a, b, i + 1, s \div 256)

\* a + b, wrapping
Add64(a, b) == AddFrom(a, b, 1, 0)

\* the byte tuple a, one byte wider
Wider(a) == Widen(a, Len(a) + 1)

\* the true 2^bits, one byte wider than a uint64
TruePow2(bits) == Shl64(Wider(One64), bits)

\* C9: for n > 0 not a power of two, limit = M - (M - n) mod n in wrapping
\* uint64 arithmetic is the largest multiple of n not above the true 2^bits:
\* a multiple of n, not 0, at most 2^bits and less than n below it.
LimitLargestMultiple ==
    pc = "draw" =>
        /\ intn.limit # Zero64
        /\ Mod64(intn.limit, intn.N) = Zero64
        /\ Leq64(Wider(intn.limit), TruePow2(intn.bits))
        /\ Less64(Sub64(TruePow2(intn.bits), Wider(intn.limit)),
                  Wider(intn.N))

\* C9 witness: n = 2^63 - 1 has bits = 64 and limit = 2n = 2^64 - 2
LimitAtTopOfRange ==
    /\ pc = "draw"
    /\ intn.N = <<255, 255, 255, 255, 255, 255, 255, 127>>
    /\ intn.bits = 64
    /\ IntnM(intn.bits) = Zero64
    /\ intn.limit = <<254, 255, 255, 255, 255, 255, 255, 255>>
    /\ intn.limit = Add64(intn.N, intn.N)

\* at the loop at least half of the 2^bits extractor values are accepted
HalfAccepted ==
    pc = "draw" =>
        Leq64(TruePow2(intn.bits),
              Add64(Wider(intn.limit), Wider(intn.limit)))

\* a draw at the loop that is accepted leaves the loop; one that stays in
\* the loop was rejected
LoopStep ==
    (pc = "draw" /\ rd' # rd /\ Len(rd'.d) = Ceil8(intn.bits)) =>
        IF Less64(rd'.r, intn.limit) THEN pc' # "draw"
        ELSE pc' = "draw" /\ ret' = ret

\* C10: for every n that reaches the rejection loop at least half of the
\* 2^bits extractor values are accepted (limit >= 2^bits / 2), the loop
\* returns at the first draw r < limit, and it goes on only on a draw
\* r >= limit.
LoopAcceptsHalf == []HalfAccepted /\ [][LoopStep]_vars

\* C10 witness: a draw was rejected and ReadIntn is still at its loop
DrawRejected ==
    /\ call.op = "Intn"
    /\ pc = "draw"
    /\ rd.any
    /\ Leq64(intn.limit, rd.r)

====
